---- MODULE Spec2Model ----
(***************************************************************************)
(* Refinements: type guards built with Refinement.create and combined with *)
(* pipe (exported to callers as compose), either and not.                  *)
(*                                                                         *)
(* A refinement is a closure.  A closure is modelled as a record naming    *)
(* the function that returned it and the values it captured; Apply calls   *)
(* it.  A call yields a completion, [type, value, calls]: type "normal"    *)
(* with the returned boolean, or type "throw" with the failure raised, and *)
(* calls, the log of the classifier invocations made so far, in order.     *)
(***************************************************************************)
EXTENDS Integers, Sequences, FiniteSets, TLC

\* The longest list of refinements handed to pipe or either.
MaxArity == 3

\* The candidates: the two members of the union Pet = Cat | Dog.
Candidates == {"cat", "dog"}

\* Refinement.hit(value): new Hit(value).
hit(value) == [tag |-> "Hit", value |-> value]

\* Refinement.miss: new Miss().
miss == [tag |-> "Miss"]

\* A classifier that raises its own failure instead of returning a Result.
raise == [tag |-> "Raise"]

\* Result<U> = Hit<U> | Miss, and the third thing a classifier can do.
Behaviours == {hit(v) : v \in Candidates} \cup {miss, raise}

\* The caller-supplied classifiers, refine: (candidate: T) => Result<U>.
Classifiers == [Candidates -> Behaviours]

\* The classifiers that hit with the candidate they were given,
\* pet => pet instanceof Cat ? Refinement.hit(pet) : Refinement.miss
Typical == {c \in Classifiers : \A x \in Candidates : c[x] \in {hit(x), miss, raise}}

VARIABLES
  pc,           \* "ready": inputs chosen; "done": the refinement was called
  classifiers,  \* the caller's classifier functions, by position
  candidate,    \* the value the refinement is called with
  op,           \* which refinement the caller built
  refinement,   \* the closure that was called
  fruits,       \* the list that was filtered, when one was
  outcome,      \* how the call completed: [type, value]
  calls         \* the classifier invocations the call made, in order

vars == <<pc, classifiers, candidate, op, refinement, fruits, outcome, calls>>

Normal(value, log) == [type |-> "normal", value |-> value, calls |-> log]
Throw(error, log) == [type |-> "throw", value |-> error, calls |-> log]

\* The failure object classifier `refine` raises when called with x.
Failure(refine, x) == [by |-> refine, with |-> x]

\* One invocation of the log.
Invocation(refine, x) == [refine |-> refine, candidate |-> x]

\* refine(candidate): the classifier at position `refine` is invoked.
Invoke(refine, x, log) ==
  LET b == classifiers[refine][x]
      now == Append(log, Invocation(refine, x))
  IN IF b.tag = "Raise" THEN Throw(Failure(refine, x), now) ELSE Normal(b, now)

\* result instanceof Hit
instanceofHit(result) == result.tag = "Hit"

RECURSIVE Apply(_, _, _)

\* create(refine): the closure of line 38.
create(refine) == [fn |-> "create", refine |-> refine]

\* create with the Hit's value compared to the candidate.
createCallSameValue(closure, x, log) ==
  LET r == Invoke(closure.refine, x, log)
  IN IF r.type = "throw" THEN r
     ELSE Normal(instanceofHit(r.value) /\ r.value.value = x, r.calls)

\* create with the classifier's failure caught and read as a miss.
createCallCatching(closure, x, log) ==
  LET r == Invoke(closure.refine, x, log)
  IN IF r.type = "throw" THEN Normal(FALSE, r.calls)
     ELSE Normal(instanceofHit(r.value), r.calls)

\* (candidate) => refine(candidate) instanceof Hit
createCall(closure, x, log) ==
  LET r == Invoke(closure.refine, x, log)
  IN IF r.type = "throw" THEN r ELSE Normal(instanceofHit(r.value), r.calls)

\* pipe(...refinements): the closure of lines 68-72.
pipe(refinements) == [fn |-> "pipe", refinements |-> refinements]

\* The callback with its operands swapped: refinement(candidate) && verdict.
pipeCallbackEager(acc, r, x) ==
  LET s == Apply(r, x, acc.calls)
  IN IF s.type = "throw" THEN s
     ELSE IF s.value THEN Normal(acc.value, s.calls) ELSE s

\* The callback with the verdict so far dropped: refinement(candidate).
pipeCallbackLast(acc, r, x) == Apply(r, x, acc.calls)

\* (verdict, refinement) => verdict && refinement(candidate)
pipeCallback(acc, r, x) ==
  IF acc.value THEN Apply(r, x, acc.calls) ELSE acc

\* refinements.reduce(callback, seed) from element i on; a throw ends it.
RECURSIVE pipeReduce(_, _, _, _)
pipeReduce(refinements, x, i, acc) ==
  IF i > Len(refinements) THEN acc
  ELSE LET next == pipeCallback(acc, refinements[i], x)
       IN IF next.type = "throw" THEN next
          ELSE pipeReduce(refinements, x, i + 1, next)

\* The reduce seeded with false.
pipeCallSeedFalse(closure, x, log) ==
  pipeReduce(closure.refinements, x, 1, Normal(FALSE, log))

\* (candidate) => refinements.reduce(callback, true)
pipeCall(closure, x, log) ==
  pipeReduce(closure.refinements, x, 1, Normal(TRUE, log))

\* either(...refinements): the closure of lines 92-96.
either(refinements) == [fn |-> "either", refinements |-> refinements]

\* The callback with its operands swapped: refinement(candidate) || verdict.
eitherCallbackEager(acc, r, x) ==
  LET s == Apply(r, x, acc.calls)
  IN IF s.type = "throw" THEN s
     ELSE IF s.value THEN s ELSE Normal(acc.value, s.calls)

\* The callback with && for ||.
eitherCallbackAnd(acc, r, x) ==
  IF acc.value THEN Apply(r, x, acc.calls) ELSE acc

\* (verdict, refinement) => verdict || refinement(candidate)
eitherCallback(acc, r, x) ==
  IF acc.value THEN acc ELSE Apply(r, x, acc.calls)

\* refinements.reduce(callback, seed) from element i on; a throw ends it.
RECURSIVE eitherReduce(_, _, _, _)
eitherReduce(refinements, x, i, acc) ==
  IF i > Len(refinements) THEN acc
  ELSE LET next == eitherCallback(acc, refinements[i], x)
       IN IF next.type = "throw" THEN next
          ELSE eitherReduce(refinements, x, i + 1, next)

\* (candidate) => refinements.reduce(callback, false)
eitherCall(closure, x, log) ==
  eitherReduce(closure.refinements, x, 1, Normal(FALSE, log))

\* not(refinement): the closure of line 118.
not(r) == [fn |-> "not", refinement |-> r]

\* not without the negation.
notCallIdentity(closure, x, log) == Apply(closure.refinement, x, log)

\* not negating the function instead of its verdict: !refinement.
notCallOfFunction(closure, x, log) ==
  LET r == Apply(closure.refinement, x, log)
  IN IF r.type = "throw" THEN r ELSE Normal(FALSE, r.calls)

\* (candidate) => !refinement(candidate)
notCall(closure, x, log) ==
  LET r == Apply(closure.refinement, x, log)
  IN IF r.type = "throw" THEN r ELSE Normal(~r.value, r.calls)

\* Calling a refinement: the body of whichever closure it is.
Apply(r, x, log) ==
  CASE r.fn = "create" -> createCall(r, x, log)
    [] r.fn = "pipe" -> pipeCall(r, x, log)
    [] r.fn = "either" -> eitherCall(r, x, log)
    [] r.fn = "not" -> notCall(r, x, log)

\* list.filter(r) from element i on; a throw ends it.
RECURSIVE filter(_, _, _, _)
filter(list, r, i, acc) ==
  IF i > Len(list) THEN acc
  ELSE LET c == Apply(r, list[i], acc.calls)
       IN IF c.type = "throw" THEN c
          ELSE filter(list, r, i + 1,
                      Normal(IF c.value THEN Append(acc.value, list[i])
                                        ELSE acc.value, c.calls))

\* The refinements the caller creates, one per classifier.
Created == [i \in 1..Len(classifiers) |-> create(i)]

\* The refinements a caller hands to not: a created one, a chain, siblings.
Operands ==
  {create(1), pipe(Created)}
    \cup (IF Len(classifiers) >= 2 THEN {either(Created)} ELSE {})

\* A lone classifier is any classifier; the classifiers of a list are typical.
Init ==
  /\ pc = "ready"
  /\ classifiers \in
       [1..1 -> Classifiers] \cup UNION {[1..n -> Typical] : n \in 2..MaxArity}
  /\ candidate \in Candidates
  /\ op = "none"
  /\ refinement = [fn |-> "none"]
  /\ fruits = <<>>
  /\ outcome = [type |-> "pending"]
  /\ calls = <<>>

\* The caller calls refinement r, built as `o`, with the candidate.
Call(o, r) ==
  LET c == Apply(r, candidate, <<>>)
  IN /\ pc = "ready"
     /\ pc' = "done"
     /\ op' = o
     /\ refinement' = r
     /\ outcome' = [type |-> c.type, value |-> c.value]
     /\ calls' = c.calls
     /\ UNCHANGED <<classifiers, candidate, fruits>>

\* isCat(pet), isCat = Refinement.create(classifier)
CallCreate == Call("create", create(1))

\* compose(R1, ..., Rn)(x)
CallPipe == Call("pipe", pipe(Created))

\* either(R1, ..., Rn)(x), n >= 2
CallEither ==
  /\ Len(classifiers) >= 2
  /\ Call("either", either(Created))

\* not(R)(x)
CallNot == \E r \in Operands : Call("not", not(r))

\* not(not(R))(x)
CallNotNot == \E r \in Operands : Call("notnot", not(not(r)))

\* compose(isFruit, either(isOrange, isMango))(x)
CallPipeEither ==
  /\ Len(classifiers) >= 3
  /\ Call("pipeEither",
          pipe(<<create(1), either(SubSeq(Created, 2, Len(classifiers)))>>))

\* fruits.filter(either(R1, ..., Rn)), fruits of one or two elements
CallFilter ==
  \E list \in {<<candidate>>} \cup {<<candidate, y>> : y \in Candidates} :
    LET c == filter(list, either(Created), 1, Normal(<<>>, <<>>))
    IN /\ pc = "ready"
       /\ Len(classifiers) >= 2
       /\ pc' = "done"
       /\ op' = "filter"
       /\ refinement' = either(Created)
       /\ fruits' = list
       /\ outcome' = [type |-> c.type, value |-> c.value]
       /\ calls' = c.calls
       /\ UNCHANGED <<classifiers, candidate>>

Next ==
  \/ CallCreate
  \/ CallPipe
  \/ CallEither
  \/ CallNot
  \/ CallNotNot
  \/ CallPipeEither
  \/ CallFilter

Spec == Init /\ [][Next]_vars

----
\* What the claims are stated in: each classifier's answer, read off its table.

Stages == 1..Len(classifiers)
Hits(i, x) == classifiers[i][x].tag = "Hit"
Raises(i, x) == classifiers[i][x].tag = "Raise"
Accepts(i) == Hits(i, candidate)
Fails(i) == Raises(i, candidate)

\* Stages 1..k invoked once each with the candidate, in that order.
Invoked(k) == [i \in 1..k |-> Invocation(i, candidate)]

\* The first stage of S, or the last stage when S is empty.
FirstOf(S) == IF S = {} THEN Len(classifiers) ELSE CHOOSE i \in S : \A j \in S : i <= j

Called(o) == pc = "done" /\ op = o

\* C1: the refinement create returns is true exactly when the classifier's
\* result is a Hit, whatever the Hit carries, false when it is a Miss, and it
\* invokes the classifier exactly once.
CreateVerdictIsHit ==
  Called("create") =>
    /\ calls = Invoked(1)
    /\ ~Fails(1) => outcome.type = "normal" /\ outcome.value = Accepts(1)

CreateVerdictIsHitWitness ==
  /\ Called("create")
  /\ classifiers[1][candidate].tag = "Hit"
  /\ classifiers[1][candidate].value # candidate
  /\ outcome.type = "normal" /\ outcome.value = TRUE

\* C3: a chain of refinements that do not fail accepts a candidate exactly
\* when every stage accepts it.
PipeIsConjunction ==
  (Called("pipe") /\ \A i \in Stages : ~Fails(i)) =>
    /\ outcome.type = "normal"
    /\ outcome.value = (\A i \in Stages : Accepts(i))

\* compose(isFruit, isMango)(banana): stage 1 accepts, stage 2 rejects.
PipeIsConjunctionWitness ==
  /\ Called("pipe")
  /\ Len(classifiers) = 2
  /\ Accepts(1) /\ ~Accepts(2) /\ ~Fails(2)
  /\ outcome.type = "normal" /\ outcome.value = FALSE

\* C4: a chain invokes its stages left to right, once each, and none after
\* the first stage that does not accept.
PipeShortCircuits ==
  Called("pipe") =>
    calls = Invoked(FirstOf({i \in Stages : ~Accepts(i)}))

PipeShortCircuitsWitness ==
  /\ Called("pipe")
  /\ Len(classifiers) = 2
  /\ ~Accepts(1) /\ ~Fails(1) /\ Accepts(2)
  /\ calls = Invoked(1)

\* C5: a chain of one refinement completes as that refinement does, with the
\* same verdict or failure, and invokes it exactly once.
PipeOfOneIsIdentity ==
  (Called("pipe") /\ Len(classifiers) = 1) =>
    LET sole == Apply(refinement.refinements[1], candidate, <<>>)
    IN /\ outcome.type = sole.type
       /\ outcome.value = sole.value
       /\ calls = sole.calls
       /\ calls = Invoked(1)
       /\ ~Fails(1) => outcome.value = Accepts(1)

PipeOfOneIsIdentityWitness ==
  /\ Called("pipe")
  /\ Len(classifiers) = 1
  /\ Accepts(1)
  /\ outcome.type = "normal" /\ outcome.value = TRUE

\* C6: siblings that do not fail accept a candidate exactly when at least one
\* of them accepts it, and filtering a list whose every element some sibling
\* accepts returns the list.
EitherIsDisjunction ==
  /\ (Called("either") /\ \A i \in Stages : ~Fails(i)) =>
       /\ outcome.type = "normal"
       /\ outcome.value = (\E i \in Stages : Accepts(i))
  /\ (/\ Called("filter")
      /\ \A i \in Stages, k \in 1..Len(fruits) : ~Raises(i, fruits[k])
      /\ \A k \in 1..Len(fruits) : \E i \in Stages : Hits(i, fruits[k])) =>
       /\ outcome.type = "normal"
       /\ outcome.value = fruits

\* [orange, mango].filter(either(isOrange, isMango)), the siblings disjoint.
EitherIsDisjunctionWitness ==
  /\ Called("filter")
  /\ Len(classifiers) = 2
  /\ Len(fruits) = 2 /\ fruits[1] # fruits[2]
  /\ Hits(1, fruits[1]) /\ ~Hits(2, fruits[1]) /\ ~Raises(2, fruits[1])
  /\ ~Hits(1, fruits[2]) /\ ~Raises(1, fruits[2]) /\ Hits(2, fruits[2])
  /\ outcome.type = "normal" /\ outcome.value = fruits

\* C7, as amended: alternation invokes its siblings left to right, once each,
\* and none after the first that accepts; all of them are evaluated only when
\* every sibling before the last rejects.
EitherShortCircuits ==
  Called("either") =>
    /\ calls = Invoked(FirstOf({i \in Stages : Accepts(i) \/ Fails(i)}))
    /\ Len(calls) = Len(classifiers) <=>
         \A i \in Stages \ {Len(classifiers)} : ~Accepts(i) /\ ~Fails(i)

\* R1 rejects, R2 and R3 both accept: R2 is the first match and R3 is not
\* invoked.
EitherShortCircuitsWitness ==
  /\ Called("either")
  /\ Len(classifiers) = 3
  /\ ~Accepts(1) /\ ~Fails(1) /\ Accepts(2) /\ Accepts(3)
  /\ calls = Invoked(2)

\* C7, as claimed: alternation invokes its siblings left to right, once each,
\* none after the first that accepts, and all of them only when every one
\* rejects.
EitherEvaluatesAllOnlyIfAllReject ==
  (Called("either") /\ \A i \in Stages : ~Fails(i)) =>
    /\ calls = Invoked(FirstOf({i \in Stages : Accepts(i)}))
    /\ Len(calls) = Len(classifiers) => \A i \in Stages : ~Accepts(i)

\* C8: not(R) accepts exactly the candidates R rejects, and one call of it
\* invokes R once.
NotIsComplement ==
  Called("not") =>
    LET R == Apply(refinement.refinement, candidate, <<>>)
    IN /\ R.type = "normal" =>
            /\ outcome.type = "normal"
            /\ outcome.value = ~R.value
            /\ calls = R.calls
       /\ (refinement.refinement.fn = "create" /\ ~Fails(1)) =>
            /\ outcome.type = "normal"
            /\ outcome.value = ~Accepts(1)
            /\ calls = Invoked(1)

\* not(isPrefixed)('revert')
NotIsComplementWitness ==
  /\ Called("not")
  /\ refinement.refinement.fn = "create"
  /\ ~Accepts(1) /\ ~Fails(1)
  /\ outcome.type = "normal" /\ outcome.value = TRUE

\* C9: not(not(R)) gives R's verdict.
DoubleNegation ==
  Called("notnot") =>
    LET R == Apply(refinement.refinement.refinement, candidate, <<>>)
    IN /\ R.type = "normal" =>
            outcome.type = "normal" /\ outcome.value = R.value
       /\ (refinement.refinement.refinement.fn = "create" /\ ~Fails(1)) =>
            outcome.type = "normal" /\ outcome.value = Accepts(1)

DoubleNegationWitness ==
  /\ Called("notnot")
  /\ refinement.refinement.refinement.fn = "either"
  /\ ~Accepts(1) /\ Accepts(2)
  /\ outcome.type = "normal" /\ outcome.value = TRUE

\* C10: a failure a classifier raises ends the evaluation at that invocation
\* and reaches the caller as it was raised; no failure has another origin.
RaisedAt(k) == Raises(calls[k].refine, calls[k].candidate)

FailurePropagates ==
  pc = "done" =>
    /\ \A k \in 1..Len(calls) :
         RaisedAt(k) =>
           /\ k = Len(calls)
           /\ outcome.type = "throw"
           /\ outcome.value = Failure(calls[k].refine, calls[k].candidate)
    /\ outcome.type = "throw" => calls # <<>> /\ RaisedAt(Len(calls))

\* compose(R1, either(R2, R3)): R1 accepts, R2 rejects, R3 fails.
FailurePropagatesWitness ==
  /\ Called("pipeEither")
  /\ Len(classifiers) = 3
  /\ Accepts(1) /\ ~Accepts(2) /\ ~Fails(2) /\ Fails(3)
  /\ outcome.type = "throw" /\ outcome.value = Failure(3, candidate)

====
